---- MODULE Spec2Model ----
(***************************************************************************)
(* Model of the ToDoList backend: the goals REST views (goals/views.py)    *)
(* over the Board / GoalCategory / Goal / GoalComment tables, and the      *)
(* Telegram linking record TgUser (bot/models.py).                         *)
(*                                                                         *)
(* Tables are sequences indexed by primary key (auto-increment ids);       *)
(* GoalComment rows can be removed, the other tables only grow.            *)
(***************************************************************************)
EXTENDS Integers, Sequences, FiniteSets, TLC

(* ---------------- bounds of the model ---------------- *)
\* rows in the four goals tables together
MaxRows == 4

(* ---------------- program constants ---------------- *)
\* get_random_string(10) in TgUser.set_verification_code
CODE_LENGTH == 10

Users == {"u1", "u2"}
NoUser == "none"
\* Goal.Status: the archived value and two live values
archived == "archived"
Status == {"to_do", "done", archived}
\* alphabet of get_random_string, two representatives of it
allowed_chars == {"a", "Z"}
\* row absent from the table (GoalComment after a hard delete)
Gone == [gone |-> TRUE]

VARIABLES
    boards,      \* Board table: id -> [is_deleted, participants]
    categories,  \* GoalCategory table: id -> [board, is_deleted]
    goals,       \* Goal table: id -> [category, status]
    comments,    \* GoalComment table: id -> [goal] or Gone
    resp,        \* last response: <<view, method, outcome>>
    tx,          \* the open transaction of a Board delete
    tg,          \* the TgUser row
    ret          \* value returned by the last set_verification_code

db == <<boards, categories, goals, comments>>
vars == <<boards, categories, goals, comments, resp, tx, tg, ret>>

Rows == Len(boards) + Len(categories) + Len(goals) + Len(comments)

BoardIds == 1..Len(boards)
CategoryIds == 1..Len(categories)
GoalIds == 1..Len(goals)
CommentIds == {k \in 1..Len(comments) : comments[k] # Gone}

NoResp == <<"", "", "">>

NoTx == [pc |-> "idle", board |-> 0, wboard |-> FALSE,
         wcats |-> {}, wgoals |-> {}]

(* ---------------- querysets ---------------- *)

\* board__participants__user=user
IsParticipant(u, b) == u \in boards[b].participants

\* variant: the list without the is_deleted=False condition
GoalCategoryListView_get_queryset_with_deleted(u) ==
    {c \in CategoryIds : IsParticipant(u, categories[c].board)}

GoalCategoryListView_get_queryset(u) ==
    {c \in CategoryIds : IsParticipant(u, categories[c].board)
                         /\ ~categories[c].is_deleted}

\* variant: the detail queryset without the is_deleted=False condition
GoalCategoryView_get_queryset_with_deleted(u) ==
    {c \in CategoryIds : IsParticipant(u, categories[c].board)}

GoalCategoryView_get_queryset(u) ==
    {c \in CategoryIds : IsParticipant(u, categories[c].board)
                         /\ ~categories[c].is_deleted}

\* variant: the list without .exclude(status=archived)
GoalListView_get_queryset_no_exclude(u) ==
    {g \in GoalIds : IsParticipant(u, categories[goals[g].category].board)}

GoalListView_get_queryset(u) ==
    {g \in GoalIds : IsParticipant(u, categories[goals[g].category].board)}
      \ {g \in GoalIds : goals[g].status = archived}

GoalView_get_queryset(u) ==
    {g \in GoalIds : IsParticipant(u, categories[goals[g].category].board)}

GoalCommentListView_get_queryset(u) ==
    {k \in CommentIds :
        IsParticipant(u, categories[goals[comments[k].goal].category].board)}

\* variant: GoalComment.objects.all()
GoalCommentView_get_queryset_all(u) == CommentIds

GoalCommentView_get_queryset(u) ==
    {k \in CommentIds :
        IsParticipant(u, categories[goals[comments[k].goal].category].board)}

BoardListView_get_queryset(u) ==
    {b \in BoardIds : IsParticipant(u, b) /\ ~boards[b].is_deleted}

BoardView_get_queryset(u) ==
    {b \in BoardIds : IsParticipant(u, b) /\ ~boards[b].is_deleted}

(* ---------------- row locks of the open transaction ---------------- *)
BoardLocked(b) == tx.wboard /\ tx.board = b
CategoryLocked(c) == c \in tx.wcats
GoalLocked(g) == g \in tx.wgoals

(* ---------------- create / update endpoints ---------------- *)
(* The views name a serializer and a permission class and hold no code of  *)
(* their own; a request is accepted when the requester participates in the *)
(* board, and a detail request finds its row through get_queryset().       *)

\* POST board: the creator becomes its participant
BoardCreateView_post(u) ==
    /\ Rows < MaxRows
    /\ boards' = Append(boards, [is_deleted |-> FALSE, participants |-> {u}])
    /\ resp' = <<"BoardCreateView", "post", "ok">>
    /\ UNCHANGED <<categories, goals, comments, tx, tg, ret>>

\* PUT board/<b>: replaces the participants, the requester stays one
BoardView_put(u, b, P) ==
    /\ b \in BoardIds
    /\ ~BoardLocked(b)
    /\ IF b \in BoardView_get_queryset(u)
         THEN /\ boards' = [boards EXCEPT ![b].participants = P \cup {u}]
              /\ resp' = <<"BoardView", "put", "ok">>
         ELSE /\ boards' = boards
              /\ resp' = <<"BoardView", "put", "not_found">>
    /\ UNCHANGED <<categories, goals, comments, tx, tg, ret>>

\* POST goal_category: requester participates in the board
GoalCategoryCreateView_post(u, b) ==
    /\ Rows < MaxRows
    /\ b \in BoardIds
    /\ IsParticipant(u, b)
    /\ categories' = Append(categories,
                            [board |-> b, is_deleted |-> FALSE])
    /\ resp' = <<"GoalCategoryCreateView", "post", "ok">>
    /\ UNCHANGED <<boards, goals, comments, tx, tg, ret>>

\* PUT goal_category/<c>: writes the title, which the model does not track
GoalCategoryView_put(u, c) ==
    /\ c \in CategoryIds
    /\ ~CategoryLocked(c)
    /\ IF c \in GoalCategoryView_get_queryset(u)
         THEN /\ categories' = categories
              /\ resp' = <<"GoalCategoryView", "put", "ok">>
         ELSE /\ categories' = categories
              /\ resp' = <<"GoalCategoryView", "put", "not_found">>
    /\ UNCHANGED <<boards, goals, comments, tx, tg, ret>>

\* POST goal: requester participates in the board of the category
GoalCreateView_post(u, c, s) ==
    /\ Rows < MaxRows
    /\ c \in CategoryIds
    /\ IsParticipant(u, categories[c].board)
    /\ goals' = Append(goals, [category |-> c, status |-> s])
    /\ resp' = <<"GoalCreateView", "post", "ok">>
    /\ UNCHANGED <<boards, categories, comments, tx, tg, ret>>

\* PUT goal/<g>
GoalView_put(u, g, s) ==
    /\ g \in GoalIds
    /\ ~GoalLocked(g)
    /\ IF g \in GoalView_get_queryset(u)
         THEN /\ goals' = [goals EXCEPT ![g].status = s]
              /\ resp' = <<"GoalView", "put", "ok">>
         ELSE /\ goals' = goals
              /\ resp' = <<"GoalView", "put", "not_found">>
    /\ UNCHANGED <<boards, categories, comments, tx, tg, ret>>

\* POST goal_comment: requester participates in the board of the goal
GoalCommentCreateView_post(u, g) ==
    /\ Rows < MaxRows
    /\ g \in GoalIds
    /\ IsParticipant(u, categories[goals[g].category].board)
    /\ comments' = Append(comments, [goal |-> g])
    /\ resp' = <<"GoalCommentCreateView", "post", "ok">>
    /\ UNCHANGED <<boards, categories, goals, tx, tg, ret>>

(* ---------------- delete endpoints ---------------- *)

\* variant: the category delete also archives the goals of the category
GoalCategoryView_perform_destroy_cascade(c) ==
    /\ categories' = [categories EXCEPT ![c].is_deleted = TRUE]
    /\ goals' = [g \in 1..Len(goals) |->
                    IF goals[g].category = c
                      THEN [goals[g] EXCEPT !.status = archived]
                    ELSE goals[g]]
    /\ UNCHANGED <<boards, comments>>

\* instance.is_deleted = True; instance.save()
GoalCategoryView_perform_destroy(c) ==
    /\ categories' = [categories EXCEPT ![c].is_deleted = TRUE]
    /\ UNCHANGED <<boards, goals, comments>>

\* DELETE goal_category/<c>
GoalCategoryView_delete(u, c) ==
    /\ c \in CategoryIds
    /\ ~CategoryLocked(c)
    /\ IF c \in GoalCategoryView_get_queryset(u)
         THEN /\ GoalCategoryView_perform_destroy(c)
              /\ resp' = <<"GoalCategoryView", "delete", "ok">>
         ELSE /\ UNCHANGED db
              /\ resp' = <<"GoalCategoryView", "delete", "not_found">>
    /\ UNCHANGED <<tx, tg, ret>>

\* variant: the goal delete also removes the comments of the goal
GoalView_perform_destroy_with_comments(g) ==
    /\ goals' = [goals EXCEPT ![g].status = archived]
    /\ comments' = [k \in 1..Len(comments) |->
                       IF comments[k] # Gone /\ comments[k].goal = g THEN Gone
                       ELSE comments[k]]
    /\ UNCHANGED <<boards, categories>>

\* instance.status = Goal.Status.archived; instance.save()
GoalView_perform_destroy(g) ==
    /\ goals' = [goals EXCEPT ![g].status = archived]
    /\ UNCHANGED <<boards, categories, comments>>

\* DELETE goal/<g>
GoalView_delete(u, g) ==
    /\ g \in GoalIds
    /\ ~GoalLocked(g)
    /\ IF g \in GoalView_get_queryset(u)
         THEN /\ GoalView_perform_destroy(g)
              /\ resp' = <<"GoalView", "delete", "ok">>
         ELSE /\ UNCHANGED db
              /\ resp' = <<"GoalView", "delete", "not_found">>
    /\ UNCHANGED <<tx, tg, ret>>

\* DELETE goal_comment/<k>: the row is removed
GoalCommentView_delete(u, k) ==
    /\ k \in 1..Len(comments)
    /\ IF k \in GoalCommentView_get_queryset(u)
         THEN /\ comments' = [comments EXCEPT ![k] = Gone]
              /\ resp' = <<"GoalCommentView", "delete", "ok">>
         ELSE /\ comments' = comments
              /\ resp' = <<"GoalCommentView", "delete", "not_found">>
    /\ UNCHANGED <<boards, categories, goals, tx, tg, ret>>

\* instance.categories.update(is_deleted=True)
CategoriesUpdate(cats, b) ==
    [c \in 1..Len(cats) |->
        IF cats[c].board = b THEN [cats[c] EXCEPT !.is_deleted = TRUE]
        ELSE cats[c]]

\* Goal.objects.filter(category__board=instance).update(status=archived)
GoalsUpdate(gs, cats, b) ==
    [g \in 1..Len(gs) |->
        IF cats[gs[g].category].board = b
          THEN [gs[g] EXCEPT !.status = archived]
        ELSE gs[g]]

\* variant: the body without the update of the goals
BoardView_perform_destroy_no_goals(b) ==
    /\ boards' = [boards EXCEPT ![b].is_deleted = TRUE]
    /\ categories' = CategoriesUpdate(categories, b)
    /\ UNCHANGED <<goals, comments>>

\* the body of BoardView.perform_destroy, committed as one transaction
BoardView_perform_destroy(b) ==
    /\ boards' = [boards EXCEPT ![b].is_deleted = TRUE]
    /\ categories' = CategoriesUpdate(categories, b)
    /\ goals' = GoalsUpdate(goals, categories, b)
    /\ UNCHANGED comments

\* DELETE board/<b>
BoardView_delete(u, b) ==
    /\ b \in BoardIds
    /\ tx.pc = "idle"
    /\ IF b \in BoardView_get_queryset(u)
         THEN /\ BoardView_perform_destroy(b)
              /\ resp' = <<"BoardView", "delete", "ok">>
         ELSE /\ UNCHANGED db
              /\ resp' = <<"BoardView", "delete", "not_found">>
    /\ UNCHANGED <<tx, tg, ret>>

(* ---------------- Board delete, statement by statement ---------------- *)
(* BoardView.perform_destroy runs its three statements inside                *)
(* transaction.atomic(): the writes stay private to the transaction (tx)   *)
(* until the block exits, are applied together on commit and are dropped    *)
(* when a statement raises.  Rows written by the open transaction are       *)
(* locked for other writers until it ends.                                   *)

\* DELETE board/<b>: get_object(), then the atomic block is entered
BoardView_delete_begin(u, b) ==
    /\ b \in BoardIds
    /\ tx.pc = "idle"
    /\ IF b \in BoardView_get_queryset(u)
         THEN /\ tx' = [NoTx EXCEPT !.pc = "begun", !.board = b]
              /\ resp' = resp
         ELSE /\ tx' = tx
              /\ resp' = <<"BoardView", "delete", "not_found">>
    /\ UNCHANGED <<boards, categories, goals, comments, tg, ret>>

\* instance.is_deleted = True; instance.save()
Tx_save_board ==
    /\ tx.pc = "begun"
    /\ tx' = [tx EXCEPT !.pc = "board_saved", !.wboard = TRUE]
    /\ UNCHANGED <<boards, categories, goals, comments, resp, tg, ret>>

\* variant: the update of the categories written outside the transaction
Tx_update_categories_autocommit ==
    /\ tx.pc = "board_saved"
    /\ tx' = [tx EXCEPT !.pc = "cats_updated",
                        !.wcats = {c \in CategoryIds :
                                      categories[c].board = tx.board}]
    /\ categories' = CategoriesUpdate(categories, tx.board)
    /\ UNCHANGED <<boards, goals, comments, resp, tg, ret>>

\* instance.categories.update(is_deleted=True)
Tx_update_categories ==
    /\ tx.pc = "board_saved"
    /\ tx' = [tx EXCEPT !.pc = "cats_updated",
                        !.wcats = {c \in CategoryIds :
                                      categories[c].board = tx.board}]
    /\ UNCHANGED <<boards, categories, goals, comments, resp, tg, ret>>

\* Goal.objects.filter(category__board=instance).update(status=archived)
Tx_update_goals ==
    /\ tx.pc = "cats_updated"
    /\ tx' = [tx EXCEPT !.pc = "goals_updated",
                        !.wgoals = {g \in GoalIds :
                            categories[goals[g].category].board = tx.board}]
    /\ UNCHANGED <<boards, categories, goals, comments, resp, tg, ret>>

\* leaving the atomic block: the three writes become visible together
Tx_commit ==
    /\ tx.pc = "goals_updated"
    /\ boards' = [boards EXCEPT ![tx.board].is_deleted = TRUE]
    /\ categories' = [c \in 1..Len(categories) |->
                        IF c \in tx.wcats
                          THEN [categories[c] EXCEPT !.is_deleted = TRUE]
                        ELSE categories[c]]
    /\ goals' = [g \in 1..Len(goals) |->
                    IF g \in tx.wgoals
                      THEN [goals[g] EXCEPT !.status = archived]
                    ELSE goals[g]]
    /\ tx' = NoTx
    /\ resp' = <<"BoardView", "delete", "ok">>
    /\ UNCHANGED <<comments, tg, ret>>

\* a statement of the block (or the commit) raises: rollback
Tx_rollback ==
    /\ tx.pc \in {"begun", "board_saved", "cats_updated", "goals_updated"}
    /\ tx' = NoTx
    /\ resp' = <<"BoardView", "delete", "error">>
    /\ UNCHANGED <<boards, categories, goals, comments, tg, ret>>

(* ---------------- TgUser ---------------- *)

\* variant: one character short
get_random_string_short(length) == [1..(length - 1) -> allowed_chars]

\* django.utils.crypto.get_random_string(length): the strings it can return
get_random_string(length) == [1..length -> allowed_chars]

Codes == get_random_string(CODE_LENGTH)

\* TgUser.set_verification_code
TgUser_set_verification_code ==
    /\ \E code \in get_random_string(CODE_LENGTH) :
          /\ tg' = [tg EXCEPT !.verification_code = code]
          /\ ret' = code
    /\ UNCHANGED <<boards, categories, goals, comments, resp, tx>>

\* an authenticated user supplies a code; a matching code binds the row
TgUser_verify(u, code) ==
    /\ tg.verification_code = code
    /\ tg' = [tg EXCEPT !.user = u]
    /\ UNCHANGED <<boards, categories, goals, comments, resp, tx, ret>>

(* ---------------- specification: one request at a time ---------------- *)

TgInit == [tg_chat_id |-> 1, tg_user_id |-> 1, verification_code |-> <<>>,
           user |-> NoUser]

Init ==
    /\ boards = <<>>
    /\ categories = <<>>
    /\ goals = <<>>
    /\ comments = <<>>
    /\ resp = NoResp
    /\ tx = NoTx
    /\ tg = TgInit
    /\ ret = <<>>

Next ==
    \/ \E u \in Users : BoardCreateView_post(u)
    \/ \E u \in Users, b \in 1..MaxRows, P \in SUBSET Users : BoardView_put(u, b, P)
    \/ \E u \in Users, b \in 1..MaxRows : BoardView_delete(u, b)
    \/ \E u \in Users, b \in 1..MaxRows :
          GoalCategoryCreateView_post(u, b)
    \/ \E u \in Users, c \in 1..MaxRows :
          GoalCategoryView_put(u, c)
    \/ \E u \in Users, c \in 1..MaxRows : GoalCategoryView_delete(u, c)
    \/ \E u \in Users, c \in 1..MaxRows, s \in Status :
          GoalCreateView_post(u, c, s)
    \/ \E u \in Users, g \in 1..MaxRows, s \in Status : GoalView_put(u, g, s)
    \/ \E u \in Users, g \in 1..MaxRows : GoalView_delete(u, g)
    \/ \E u \in Users, g \in 1..MaxRows : GoalCommentCreateView_post(u, g)
    \/ \E u \in Users, k \in 1..MaxRows : GoalCommentView_delete(u, k)

Spec == Init /\ [][Next]_vars

(* ------- specification: Board delete interleaved with other requests ------- *)
(* The Board delete runs statement by statement while other requests are    *)
(* served.  The other requests are issued only against boards, categories   *)
(* and goals that are not deleted in the stored data at that moment, so     *)
(* that no behaviour depends on what a serializer accepts for a deleted     *)
(* parent.                                                                   *)

Visible(b) == ~boards[b].is_deleted
VisibleCategory(c) == ~categories[c].is_deleted /\ Visible(categories[c].board)

NextTx ==
    \/ \E u \in Users : BoardCreateView_post(u)
    \/ \E u \in Users, b \in 1..MaxRows :
          GoalCategoryCreateView_post(u, b) /\ Visible(b)
    \/ \E u \in Users, c \in 1..MaxRows :
          GoalCategoryView_delete(u, c) /\ VisibleCategory(c)
    \/ \E u \in Users, c \in 1..MaxRows, s \in Status :
          GoalCreateView_post(u, c, s) /\ VisibleCategory(c)
    \/ \E u \in Users, g \in 1..MaxRows, s \in Status :
          GoalView_put(u, g, s) /\ VisibleCategory(goals[g].category)
    \/ \E u \in Users, g \in 1..MaxRows :
          GoalView_delete(u, g) /\ VisibleCategory(goals[g].category)
    \/ \E u \in Users, b \in 1..MaxRows : BoardView_delete_begin(u, b)
    \/ Tx_save_board
    \/ Tx_update_categories
    \/ Tx_update_goals
    \/ Tx_commit
    \/ Tx_rollback

SpecTx == Init /\ [][NextTx]_vars

(* ---------------- specification: the TgUser row ---------------- *)

NextTg ==
    \/ TgUser_set_verification_code
    \/ \E u \in Users, code \in Codes : TgUser_verify(u, code)

SpecTg == Init /\ [][NextTg]_vars

(* ======================= properties ======================= *)

BoardOfCategory(c) == categories[c].board
BoardOfGoal(g) == categories[goals[g].category].board
BoardOfComment(k) == categories[goals[comments[k].goal].category].board
CategoriesOf(b) == {c \in CategoryIds : BoardOfCategory(c) = b}
GoalsOf(b) == {g \in GoalIds : BoardOfGoal(g) = b}

\* C1: when a Board delete on board b completes, b is deleted, every
\* category of b is deleted and every goal under b is archived, whatever the
\* number of categories and goals.
C1_BoardDeleteCascades ==
    [][resp' = <<"BoardView", "delete", "ok">> =>
        \A u \in Users, b \in 1..MaxRows :
          (BoardView_delete(u, b) /\ b \in BoardView_get_queryset(u)) =>
             /\ boards'[b].is_deleted
             /\ \A c \in CategoriesOf(b)' : categories'[c].is_deleted
             /\ \A g \in GoalsOf(b)' : goals'[g].status = archived
             /\ CategoriesOf(b)' = CategoriesOf(b)
             /\ GoalsOf(b)' = GoalsOf(b)]_vars

C1_Witness ==
    \E b \in BoardIds :
        /\ resp = <<"BoardView", "delete", "ok">>
        /\ boards[b].is_deleted
        /\ Cardinality(CategoriesOf(b)) >= 2
        /\ Cardinality(GoalsOf(b)) >= 1
        /\ \A c \in CategoriesOf(b) : categories[c].is_deleted
        /\ \A g \in GoalsOf(b) : goals[g].status = archived

\* C2: no statement of a Board delete changes the stored boards, categories
\* or goals before the commit; a failure at any statement drops the writes
\* and leaves the tables untouched; the commit applies the three writes in
\* one step.
C2_DeleteAllOrNothing ==
    [][tx' # tx =>
          IF tx.pc = "goals_updated" /\ tx'.pc = "idle" /\ resp'[3] = "ok"
            THEN /\ boards'[tx.board].is_deleted
                 /\ \A c \in tx.wcats : categories'[c].is_deleted
                 /\ \A g \in tx.wgoals : goals'[g].status = archived
            ELSE /\ UNCHANGED db
                 /\ tx'.pc = "idle" => (tx' = NoTx /\ resp'[3] = "error")]_vars

C2_Witness ==
    /\ resp = <<"BoardView", "delete", "error">>
    /\ tx = NoTx
    /\ \E b \in BoardIds :
          /\ ~boards[b].is_deleted
          /\ \E c \in CategoriesOf(b) : ~categories[c].is_deleted
          /\ \E g \in GoalsOf(b) : goals[g].status # archived

\* C3: the Goal list of a user holds no archived goal and no goal of a board
\* the user does not participate in.
C3_GoalListVisible ==
    \A u \in Users : \A g \in GoalListView_get_queryset(u) :
        /\ goals[g].status # archived
        /\ u \in boards[BoardOfGoal(g)].participants

C3_Witness ==
    \E u \in Users, v \in Users, g1 \in GoalIds, g2 \in GoalIds :
        /\ g1 \in GoalListView_get_queryset(u)
        /\ goals[g2].status = archived
        /\ u \in boards[BoardOfGoal(g2)].participants
        /\ v \notin boards[BoardOfGoal(g1)].participants

\* the eight querysets of a user hold only rows of boards the user is in
C4_Restricted ==
    \A u \in Users :
        /\ \A b \in BoardListView_get_queryset(u) \cup BoardView_get_queryset(u) :
              u \in boards[b].participants
        /\ \A c \in GoalCategoryListView_get_queryset(u)
                      \cup GoalCategoryView_get_queryset(u) :
              u \in boards[BoardOfCategory(c)].participants
        /\ \A g \in GoalListView_get_queryset(u) \cup GoalView_get_queryset(u) :
              u \in boards[BoardOfGoal(g)].participants
        /\ \A k \in GoalCommentListView_get_queryset(u)
                      \cup GoalCommentView_get_queryset(u) :
              u \in boards[BoardOfComment(k)].participants

\* a PUT or DELETE by a user on a row of a board the user is not in
C4_Refused ==
    /\ (resp'[1] = "BoardView" /\ resp'[2] = "delete") =>
         \A u \in Users, i \in BoardIds :
            (u \notin boards[i].participants /\ BoardView_delete(u, i))
              => (UNCHANGED db /\ resp'[3] = "not_found")
    /\ (resp'[1] = "BoardView" /\ resp'[2] = "put") =>
         \A u \in Users, i \in BoardIds :
            (u \notin boards[i].participants
               /\ \E P \in SUBSET Users : BoardView_put(u, i, P))
              => (UNCHANGED db /\ resp'[3] = "not_found")
    /\ (resp'[1] = "GoalCategoryView" /\ resp'[2] = "delete") =>
         \A u \in Users, i \in CategoryIds :
            (u \notin boards[BoardOfCategory(i)].participants
               /\ GoalCategoryView_delete(u, i))
              => (UNCHANGED db /\ resp'[3] = "not_found")
    /\ (resp'[1] = "GoalCategoryView" /\ resp'[2] = "put") =>
         \A u \in Users, i \in CategoryIds :
            (u \notin boards[BoardOfCategory(i)].participants
               /\ GoalCategoryView_put(u, i))
              => (UNCHANGED db /\ resp'[3] = "not_found")
    /\ (resp'[1] = "GoalView" /\ resp'[2] = "delete") =>
         \A u \in Users, i \in GoalIds :
            (u \notin boards[BoardOfGoal(i)].participants /\ GoalView_delete(u, i))
              => (UNCHANGED db /\ resp'[3] = "not_found")
    /\ (resp'[1] = "GoalView" /\ resp'[2] = "put") =>
         \A u \in Users, i \in GoalIds :
            (u \notin boards[BoardOfGoal(i)].participants
               /\ \E s \in Status : GoalView_put(u, i, s))
              => (UNCHANGED db /\ resp'[3] = "not_found")
    /\ resp'[1] = "GoalCommentView" =>
         \A u \in Users, i \in CommentIds :
            (u \notin boards[BoardOfComment(i)].participants
               /\ GoalCommentView_delete(u, i))
              => (UNCHANGED db /\ resp'[3] = "not_found")

\* C4: every list and detail queryset of a user holds only rows of boards
\* the user participates in, and an update or delete request on a row of
\* another board is answered not found and changes nothing.
C4_ParticipantsOnly == []C4_Restricted /\ [][C4_Refused]_vars

C4_Witness ==
    \E u \in Users, k \in CommentIds :
        /\ u \notin boards[BoardOfComment(k)].participants
        /\ \E v \in Users : k \in GoalCommentView_get_queryset(v)
        /\ resp = <<"GoalCommentView", "delete", "not_found">>

\* deleted boards and categories are in no list
C5_Hidden ==
    /\ \A b \in BoardIds : boards[b].is_deleted =>
          \A u \in Users : b \notin BoardListView_get_queryset(u)
    /\ \A c \in CategoryIds : categories[c].is_deleted =>
          \A u \in Users : c \notin GoalCategoryListView_get_queryset(u)

\* a delete keeps the rows it marks, under their ids, other fields as before
C5_Kept ==
    /\ resp' = <<"GoalCategoryView", "delete", "ok">> =>
         \A u \in Users, i \in CategoryIds :
            (GoalCategoryView_delete(u, i) /\ i \in GoalCategoryView_get_queryset(u))
              => /\ Len(categories') = Len(categories)
                 /\ categories'[i] = [categories[i] EXCEPT !.is_deleted = TRUE]
    /\ resp' = <<"BoardView", "delete", "ok">> =>
         \A u \in Users, i \in BoardIds :
            (BoardView_delete(u, i) /\ i \in BoardView_get_queryset(u))
              => /\ Len(boards') = Len(boards)
                 /\ boards'[i] = [boards[i] EXCEPT !.is_deleted = TRUE]
                 /\ Len(categories') = Len(categories)
                 /\ \A c \in CategoriesOf(i) :
                       categories'[c] = [categories[c] EXCEPT !.is_deleted = TRUE]

\* C5: a soft-deleted board or category keeps its row in the table under
\* the same id (it can be read by primary key) and is in no user's Board or
\* Category list.
C5_SoftDeleteKeepsRow == []C5_Hidden /\ [][C5_Kept]_vars

C5_Witness ==
    \E b \in BoardIds, c \in CategoryIds, d \in CategoryIds :
        /\ resp = <<"GoalCategoryView", "delete", "ok">>
        /\ boards[b].is_deleted
        /\ BoardOfCategory(c) = b
        /\ categories[c].is_deleted
        /\ ~boards[BoardOfCategory(d)].is_deleted
        /\ categories[d].is_deleted

\* C7: a Goal delete archives the goal and changes nothing else: the row,
\* its category and the comments stay; afterwards the goal is in no Goal
\* list and still in the Goal detail queryset of the board's participants.
C7_GoalDeleteArchives ==
    [][resp' = <<"GoalView", "delete", "ok">> =>
        \A u \in Users, g \in 1..MaxRows :
          (GoalView_delete(u, g) /\ g \in GoalView_get_queryset(u)) =>
             /\ goals' = [goals EXCEPT ![g].status = archived]
             /\ UNCHANGED <<boards, categories, comments>>
             /\ \A v \in Users : g \notin GoalListView_get_queryset(v)'
             /\ \A v \in boards[BoardOfGoal(g)].participants :
                   g \in GoalView_get_queryset(v)']_vars

C7_Witness ==
    \E g \in GoalIds, k \in CommentIds, u \in Users :
        /\ resp = <<"GoalView", "delete", "ok">>
        /\ Len(goals) = 1
        /\ goals[g].status = archived
        /\ comments[k].goal = g
        /\ ~boards[BoardOfGoal(g)].is_deleted
        /\ g \in GoalView_get_queryset(u)
        /\ g \notin GoalListView_get_queryset(u)

\* C8: a Category delete sets is_deleted on that category only; the board,
\* the other categories and every goal are unchanged, and the goals of the
\* category that are not archived stay in the Goal list.
C8_CategoryDeleteNoCascade ==
    [][resp' = <<"GoalCategoryView", "delete", "ok">> =>
        \A u \in Users, c \in 1..MaxRows :
          (GoalCategoryView_delete(u, c) /\ c \in GoalCategoryView_get_queryset(u)) =>
             /\ categories' = [categories EXCEPT ![c].is_deleted = TRUE]
             /\ UNCHANGED <<boards, goals, comments>>
             /\ \A g \in GoalIds :
                   (goals[g].category = c /\ goals[g].status # archived) =>
                      \A v \in boards[BoardOfCategory(c)].participants :
                         g \in GoalListView_get_queryset(v)']_vars

C8_Witness ==
    \E c \in CategoryIds, g \in GoalIds, u \in Users :
        /\ resp = <<"GoalCategoryView", "delete", "ok">>
        /\ Len(categories) = 1
        /\ categories[c].is_deleted
        /\ ~boards[BoardOfCategory(c)].is_deleted
        /\ goals[g].category = c
        /\ goals[g].status # archived
        /\ g \in GoalListView_get_queryset(u)

\* C9: in every reachable state every category of a deleted board is
\* deleted and every goal under a deleted board is archived.
C9_DeletedBoardStaysCascaded ==
    \A b \in BoardIds : boards[b].is_deleted =>
        /\ \A c \in CategoriesOf(b) : categories[c].is_deleted
        /\ \A g \in GoalsOf(b) : goals[g].status = archived

\* deleted boards and categories are in no detail queryset
C10_NotFound ==
    \A u \in Users :
        /\ \A b \in BoardIds : boards[b].is_deleted => b \notin BoardView_get_queryset(u)
        /\ \A c \in CategoryIds :
              categories[c].is_deleted => c \notin GoalCategoryView_get_queryset(u)

\* no step clears is_deleted; PUT and DELETE on a deleted row change nothing
C10_Step ==
    /\ \A b \in BoardIds : boards[b].is_deleted => boards'[b].is_deleted
    /\ \A c \in CategoryIds : categories[c].is_deleted => categories'[c].is_deleted
    /\ (resp'[1] = "BoardView" /\ resp'[2] = "delete") =>
         \A u \in Users, i \in BoardIds :
            (boards[i].is_deleted /\ BoardView_delete(u, i))
              => (UNCHANGED db /\ resp'[3] = "not_found")
    /\ (resp'[1] = "BoardView" /\ resp'[2] = "put") =>
         \A u \in Users, i \in BoardIds :
            (boards[i].is_deleted /\ \E P \in SUBSET Users : BoardView_put(u, i, P))
              => (UNCHANGED db /\ resp'[3] = "not_found")
    /\ (resp'[1] = "GoalCategoryView" /\ resp'[2] = "delete") =>
         \A u \in Users, i \in CategoryIds :
            (categories[i].is_deleted /\ GoalCategoryView_delete(u, i))
              => (UNCHANGED db /\ resp'[3] = "not_found")
    /\ (resp'[1] = "GoalCategoryView" /\ resp'[2] = "put") =>
         \A u \in Users, i \in CategoryIds :
            (categories[i].is_deleted /\ GoalCategoryView_put(u, i))
              => (UNCHANGED db /\ resp'[3] = "not_found")

\* C10: is_deleted never goes back to False; a deleted board or category is
\* in no user's detail queryset, and PUT or DELETE on it is answered not
\* found and changes nothing.
C10_SoftDeleteIrreversible == []C10_NotFound /\ [][C10_Step]_vars

C10_Witness ==
    /\ resp = <<"BoardView", "delete", "not_found">>
    /\ Len(boards) = 1
    /\ boards[1].is_deleted
    /\ boards[1].participants = Users

\* C6: a step that changes the stored code or the returned value (a call of
\* set_verification_code) stores a code of 10 characters of the alphabet,
\* returns the stored value and leaves the chat id, the Telegram user id and
\* the linked user of the row unchanged.
C6_SetVerificationCode ==
    [][(ret' # ret \/ tg'.verification_code # tg.verification_code) =>
          /\ Len(tg'.verification_code) = 10
          /\ \A i \in 1..10 : tg'.verification_code[i] \in allowed_chars
          /\ ret' = tg'.verification_code
          /\ tg'.tg_chat_id = tg.tg_chat_id
          /\ tg'.tg_user_id = tg.tg_user_id
          /\ tg'.user = tg.user]_vars

C6_Witness ==
    /\ tg.user \in Users
    /\ Len(tg.verification_code) = 10
    /\ ret = tg.verification_code
    /\ \E i \in 1..10, j \in 1..10 : tg.verification_code[i] # tg.verification_code[j]

====
